---- MODULE Spec2Model ----
(***************************************************************************)
(* Model of xdnw/hex (src/src/main.ts): the hex-binned stacked-area        *)
(* visualizer.  Arrays are 0-based functions, as in the source.  A number  *)
(* of the source is an exact rational <<n, d>> with d > 0 in lowest terms, *)
(* so that equal numbers are equal values.  The arithmetic of              *)
(* buildAllocations, where a slot is decided by comparing two computed     *)
(* numbers, is that of IEEE 754 doubles; the stages before it hand their   *)
(* exact results to it.                                                    *)
(***************************************************************************)
EXTENDS Integers, Sequences, FiniteSets, TLC

VARIABLES
  showHex,        \* main.ts:17
  userOrder,      \* main.ts:24   Null or Some(array)
  rawData,        \* main.ts:27
  seriesNames,    \* main.ts:28
  graphData,      \* main.ts:29
  hexCells,       \* main.ts:32
  renderQueued,   \* main.ts:497
  rafCallbacks,   \* frame callbacks registered by requestAnimationFrame, not yet run
  hexSize,        \* hexSizeEl.value
  smoothPercent,  \* smoothPercentEl.value
  canvasW,        \* canvas.clientWidth
  canvasH,        \* canvas.clientHeight
  orderItems,     \* the 'order' array captured by the items of globalOrderEl
  activeOrder,    \* Null, or Some(order) handed to buildAllocations by the last hex render
  computedOrder,  \* computedGlobalOrder of the last hex render (Null before)
  rendersInFrame, \* executions of render() in the last frame
  dropPromise,    \* Some(the order displayed at the last drop, with the item moved)
                  \* when that list had one item per series of the loaded data;
                  \* Null otherwise, and after a reset or an accepted load
  dropFresh,      \* dropPromise is set and no hex render has run since
  lastPlot,       \* main.ts:524
  tooltip,        \* Null while the tooltip is hidden, else Some(its content)
  overrideStale,  \* an accepted load changed the series count while an override
                  \* of the replaced data's series count was set, and no drop or
                  \* reset has happened since
  dataRendered,   \* a hex render has run since the last accepted load
  inputs,         \* what the user's inputs range over in this session
  arg,            \* input of the function under study (function-level specifications)
  result          \* its output

vars == <<showHex, userOrder, rawData, seriesNames, graphData, hexCells,
          renderQueued, rafCallbacks, hexSize, smoothPercent, canvasW, canvasH,
          orderItems, activeOrder, computedOrder, rendersInFrame,
          dropPromise, dropFresh, lastPlot, tooltip, overrideStale, dataRendered,
          inputs, arg, result>>

appVars == <<showHex, userOrder, rawData, seriesNames, graphData, hexCells,
             renderQueued, rafCallbacks, hexSize, smoothPercent, canvasW, canvasH,
             orderItems, activeOrder, computedOrder, rendersInFrame,
             dropPromise, dropFresh, lastPlot, tooltip, overrideStale, dataRendered,
             inputs>>

----------------------------------------------------------------------------
(* Bounds *)

NormMaxSeries == 3
NormMaxLen == 1
MaxSeries == 3
MaxLen == 4
MaxCols == 3
MaxRows == 6
MaxWeight == 2
PointerCells == 1
MaxWindow == 3

----------------------------------------------------------------------------
(* Arrays and optional values *)

Undef == -1

Null == [isNull |-> TRUE, arr |-> <<>>]

Some(a) == [isNull |-> FALSE, arr |-> a]

ALen(a) == Cardinality(DOMAIN a)

Arr(seq) == [i \in 0..(Len(seq) - 1) |-> seq[i + 1]]

At(a, i) == IF i \in DOMAIN a THEN a[i] ELSE Undef

Range(a) == {a[i] : i \in DOMAIN a}

IsPermutation(a, n) == DOMAIN a = 0..(n - 1) /\ Range(a) = 0..(n - 1)

Perms(n) == {a \in [0..(n - 1) -> 0..(n - 1)] : Range(a) = 0..(n - 1)}

----------------------------------------------------------------------------
(* Numbers *)

Abs(x) == IF x < 0 THEN -x ELSE x

RECURSIVE GCD(_, _)
GCD(a, b) == IF b = 0 THEN a ELSE GCD(b, a % b)

RNorm(n, d) ==
  LET g == GCD(Abs(n), d) IN <<n \div g, d \div g>>

RInt(k) == <<k, 1>>

Zero == RInt(0)

One == RInt(1)

\* Sums and comparisons go through the least common denominator, quotients
\* cancel crosswise, so that intermediate products stay small.
RAdd(a, b) ==
  LET g == GCD(a[2], b[2])
  IN RNorm(a[1] * (b[2] \div g) + b[1] * (a[2] \div g), (a[2] \div g) * b[2])

RSub(a, b) == RAdd(a, <<-b[1], b[2]>>)

RDiv(a, b) ==
  LET g1 == GCD(Abs(a[1]), b[1])
      g2 == GCD(a[2], b[2])
  IN IF a[1] = 0 THEN <<0, 1>>
     ELSE <<(a[1] \div g1) * (b[2] \div g2), (a[2] \div g2) * (b[1] \div g1)>>

RLt(a, b) ==
  LET g == GCD(a[2], b[2]) IN a[1] * (b[2] \div g) < b[1] * (a[2] \div g)

RLe_strict(a, b) == RLt(a, b)

RLe(a, b) ==
  LET g == GCD(a[2], b[2]) IN a[1] * (b[2] \div g) <= b[1] * (a[2] \div g)

RECURSIVE RSumTo(_, _)
RSumTo(a, n) == IF n = 0 THEN Zero ELSE RAdd(RSumTo(a, n - 1), a[n - 1])

RSum(a) == RSumTo(a, ALen(a))

MathMax0_raw(v) == v

MathMax0(v) == IF RLt(v, Zero) THEN Zero ELSE v

FloorDiv(n, d) == n \div d

CeilDiv(n, d) == -((-n) \div d)

----------------------------------------------------------------------------
(* transformToMock, main.ts:126-160 *)

transformThrows(data) ==
  \/ ALen(data.series) = 0
  \/ \E s \in DOMAIN data.series : ALen(data.series[s].values) # ALen(data.values)

transformToMock(data) ==
  LET L == ALen(data.values)
      sCount == ALen(data.series)
      seriesVals == [s \in 0..(sCount - 1) |->
                      [i \in 0..(L - 1) |-> MathMax0(RInt(data.series[s].values[i]))]]
      sum == [i \in 0..(L - 1) |-> RSum([s \in 0..(sCount - 1) |-> seriesVals[s][i]])]
      seriesNorm == [s \in 0..(sCount - 1) |->
                      [i \in 0..(L - 1) |->
                        IF RLe(sum[i], Zero)
                        THEN RDiv(One, RInt(sCount))
                        ELSE RDiv(seriesVals[s][i], sum[i])]]
  IN [mock |-> [x |-> [i \in 0..(L - 1) |-> i], series |-> seriesNorm],
      names |-> [s \in 0..(sCount - 1) |-> data.series[s].name]]

----------------------------------------------------------------------------
(* movingAverage, main.ts:360-374 *)

Min2(a, b) == IF a < b THEN a ELSE b

Max2(a, b) == IF a > b THEN a ELSE b

movingAverage_slicesWindow(a, windowSamples) ==
  LET n == ALen(a)
      half == windowSamples \div 2
      pref == [k \in 0..n |-> RSumTo(a, k)]
  IN IF windowSamples <= 1
     THEN [i \in 0..(n - 1 - Max2(0, windowSamples)) |-> a[i + Max2(0, windowSamples)]]
     ELSE [i \in 0..(n - 1) |->
            LET start == Max2(0, i - half)
                end == Min2(n - 1, i + half)
            IN RDiv(RSub(pref[end + 1], pref[start]), RInt(end - start + 1))]

movingAverage(a, windowSamples) ==
  LET n == ALen(a)
      half == windowSamples \div 2
      pref == [k \in 0..n |-> RSumTo(a, k)]
  IN IF windowSamples <= 1
     THEN a
     ELSE [i \in 0..(n - 1) |->
            LET start == Max2(0, i - half)
                end == Min2(n - 1, i + half)
            IN RDiv(RSub(pref[end + 1], pref[start]), RInt(end - start + 1))]

\* Math.round of the non-negative rational n/d
MathRound(n, d) == (2 * n + d) \div (2 * d)

\* render(), main.ts:576-586
smoothedGraph(data, percent) ==
  IF percent > 2
  THEN LET windowSamples == Max2(1, MathRound(ALen(data.x) * percent, 100))
       IN [x |-> data.x,
           series |-> [s \in DOMAIN data.series |->
                         movingAverage(data.series[s], windowSamples)]]
  ELSE data

----------------------------------------------------------------------------
(* aggregateBins, main.ts:397-427 *)

\* The sample window [start, end) of bin b: binSize = points / columns,
\* offset = binSize / 2 when shifted, so b * binSize + offset is
\* (2b + sh) * points / (2 * columns) with sh = 1 when shifted.
binStart(b, points, columns, shiftHalfBin) ==
  Max2(0, FloorDiv((2 * b + (IF shiftHalfBin THEN 1 ELSE 0)) * points, 2 * columns))

binEnd(b, points, columns, shiftHalfBin) ==
  Min2(points, CeilDiv((2 * b + 2 + (IF shiftHalfBin THEN 1 ELSE 0)) * points, 2 * columns))

RECURSIVE RSumRange(_, _, _)
RSumRange(a, lo, hi) ==
  IF lo >= hi THEN Zero ELSE RAdd(RSumRange(a, lo, hi - 1), MathMax0(a[hi - 1]))

normalizeBin_notDivided(col, sCount) == col

normalizeBin(col, sCount) ==
  LET sum == RSum(col)
  IN [s \in 0..(sCount - 1) |->
       IF RLe(sum, Zero) THEN RDiv(One, RInt(sCount)) ELSE RDiv(col[s], sum)]

aggregateBins(data, columns, shiftHalfBin) ==
  LET sCount == ALen(data.series)
      points == ALen(data.x)
  IN [b \in 0..(columns - 1) |->
       normalizeBin(
         [s \in 0..(sCount - 1) |->
            RSumRange(data.series[s],
                      binStart(b, points, columns, shiftHalfBin),
                      binEnd(b, points, columns, shiftHalfBin))],
         sCount)]

----------------------------------------------------------------------------
(* computeGlobalOrder, main.ts:430-441 *)

RECURSIVE addBins(_, _, _)
addBins(bins, s, c) ==
  IF c = 0 THEN Zero ELSE RAdd(addBins(bins, s, c - 1), bins[c - 1][s])

\* Array.prototype.sort is stable: index i goes after every index of the
\* sorted prefix that the comparator does not put behind it.
sortComesBefore_unstable(totals, a, b) == RLt(totals[b], totals[a]) \/ (totals[a] = totals[b] /\ a > b)

sortComesBefore_ascending(totals, a, b) == RLe(totals[a], totals[b])

sortComesBefore(totals, a, b) == RLe(totals[b], totals[a])

RECURSIVE stableSort(_, _)
stableSort(totals, n) ==
  IF n = 0 THEN <<>>
  ELSE LET prev == stableSort(totals, n - 1)
           i == n - 1
           pos == Cardinality({p \in 1..Len(prev) : sortComesBefore(totals, prev[p], i)})
       IN SubSeq(prev, 1, pos) \o <<i>> \o SubSeq(prev, pos + 1, Len(prev))

computeGlobalOrder(binsEven, binsOdd, sCount) ==
  LET totals == [s \in 0..(sCount - 1) |->
                   RAdd(addBins(binsEven, s, ALen(binsEven)),
                        addBins(binsOdd, s, ALen(binsOdd)))]
  IN Arr(stableSort(totals, sCount))

----------------------------------------------------------------------------
(* buildAllocations, main.ts:445-482 *)

(* The numbers of buildAllocations are IEEE 754 doubles (53-bit significand,
   round to nearest, ties to even).  A double x is kept as [q, e, eta] with
   x = q + eta / 2^e: q is the exact rational the computation aims at, eta
   the rounding error accumulated so far in units of 2^-e, and x * 2^e is an
   integer.  The low bits of that integer, which decide a rounding, come from
   arithmetic modulo d * 2^k for the small denominators d at hand.  Errors
   are below 2^-50 of the value, so two doubles with different q compare as
   their q do. *)

FNaN == [nan |-> TRUE, q |-> <<0, 1>>, e |-> 0, eta |-> <<0, 1>>]

FZero == [nan |-> FALSE, q |-> <<0, 1>>, e |-> 0, eta |-> <<0, 1>>]

FOne == [nan |-> FALSE, q |-> <<1, 1>>, e |-> 52, eta |-> <<0, 1>>]

RScale(a, k) == RNorm(a[1] * k, a[2])

\* 2^e modulo n
RECURSIVE PowMod(_, _)
PowMod(e, n) ==
  IF e <= 15 THEN (2 ^ e) % n ELSE (PowMod(e - 15, n) * ((2 ^ 15) % n)) % n

\* The least j with q * 2^j >= 1, for 0 < q < 2
RECURSIVE binadeFrom(_, _)
binadeFrom(q, j) == IF q[1] * (2 ^ j) >= q[2] THEN j ELSE binadeFrom(q, j + 1)

\* The exponent e for which a double in the binade of the value has unit 2^-e:
\* the value is q, or just below q when below is set
unitExponent(q, below) ==
  LET j == binadeFrom(q, 0)
  IN 52 + j + (IF below /\ q[1] * (2 ^ j) = q[2] THEN 1 ELSE 0)

\* v / sum and (r + 0.5) / rows: the double nearest to the rational q >= 0
flQuotient(q) ==
  IF q[1] = 0 THEN FZero
  ELSE LET e == unitExponent(q, FALSE)
           rem == (q[1] * PowMod(e, q[2])) % q[2]
           odd == (q[1] * PowMod(e, 2 * q[2])) % (2 * q[2]) >= q[2]
           up == 2 * rem > q[2] \/ (2 * rem = q[2] /\ odd)
       IN [nan |-> FALSE, q |-> q, e |-> e,
           eta |-> IF up THEN RNorm(q[2] - rem, q[2]) ELSE RNorm(-rem, q[2])]

\* (x * 2^x.e) modulo 2^k
lowBits(x, k) ==
  LET g == GCD(x.q[2], x.eta[2])
      den == (x.q[2] \div g) * x.eta[2]
      modulus == den * (2 ^ k)
      num == x.q[1] * (den \div x.q[2]) * PowMod(x.e, modulus) + x.eta[1] * (den \div x.eta[2])
  IN (num % modulus) \div den

\* The double nearest to the exact sum or difference x
flRound(x) ==
  IF x.q[1] = 0 THEN [x EXCEPT !.e = 0]
  ELSE LET drop == x.e - unitExponent(x.q, x.eta[1] < 0)
       IN IF drop <= 0 THEN x
          ELSE LET low == lowBits(x, drop + 1)
                   rem == low % (2 ^ drop)
                   odd == low >= 2 ^ drop
                   half == 2 ^ (drop - 1)
                   up == rem > half \/ (rem = half /\ odd)
               IN [x EXCEPT !.eta = RAdd(x.eta, RInt(IF up THEN (2 ^ drop) - rem ELSE -rem))]

JsAdd(a, b) ==
  IF a.nan \/ b.nan THEN FNaN
  ELSE IF a.q[1] = 0 THEN b
  ELSE IF b.q[1] = 0 THEN a
  ELSE LET e == Max2(a.e, b.e)
       IN flRound([nan |-> FALSE, q |-> RAdd(a.q, b.q), e |-> e,
                   eta |-> RAdd(RScale(a.eta, 2 ^ (e - a.e)), RScale(b.eta, 2 ^ (e - b.e)))])

JsSub(a, b) == JsAdd(a, [b EXCEPT !.q = <<-b.q[1], b.q[2]>>, !.eta = <<-b.eta[1], b.eta[2]>>])

JsGt(a, b) ==
  /\ ~a.nan /\ ~b.nan
  /\ \/ RLt(b.q, a.q)
     \/ /\ a.q = b.q
        /\ LET e == Max2(a.e, b.e)
           IN RLt(RScale(b.eta, 2 ^ (e - b.e)), RScale(a.eta, 2 ^ (e - a.e)))

\* main.ts:453-455: the exact share, before the division is rounded
exactShares(dist, sCount) ==
  LET raw == [i \in 0..(sCount - 1) |-> IF i \in DOMAIN dist THEN MathMax0(dist[i]) ELSE Zero]
      sum == RSum(raw)
  IN [i \in 0..(sCount - 1) |->
       IF RLt(Zero, sum) THEN RDiv(raw[i], sum) ELSE RDiv(One, RInt(Max2(1, sCount)))]

columnShares(dist, sCount) ==
  [i \in 0..(sCount - 1) |-> flQuotient(exactShares(dist, sCount)[i])]

RECURSIVE accumulate(_, _)
accumulate(sharesOrdered, i) ==
  IF i < 0 THEN FZero ELSE JsAdd(accumulate(sharesOrdered, i - 1), sharesOrdered[i])

cumulative(shares, order) ==
  LET sCount == ALen(order)
      sharesOrdered == [i \in 0..(sCount - 1) |->
                          IF order[i] \in DOMAIN shares THEN shares[order[i]] ELSE FNaN]
  IN [i \in 0..(sCount - 1) |->
       IF i = sCount - 1 THEN FOne ELSE accumulate(sharesOrdered, i)]

yFromBottom_fromTop(r, rowsForParity) ==
  flQuotient(RDiv(RInt(2 * r + 1), RInt(2 * Max2(1, rowsForParity))))

yFromBottom(r, rowsForParity) ==
  JsSub(FOne, flQuotient(RDiv(RInt(2 * r + 1), RInt(2 * Max2(1, rowsForParity)))))

RECURSIVE pickBand_offByOne(_, _, _)
pickBand_offByOne(cum, y, k) ==
  IF k < ALen(cum) - 1 /\ JsGt(y, cum[k]) THEN pickBand_offByOne(cum, y, k + 1) ELSE k + 1

RECURSIVE pickBand(_, _, _)
pickBand(cum, y, k) ==
  IF k < ALen(cum) - 1 /\ JsGt(y, cum[k]) THEN pickBand(cum, y, k + 1) ELSE k

buildAllocations(distTable, rowsForParity, order) ==
  [c \in 0..(ALen(distTable) - 1) |->
     LET cum == cumulative(columnShares(distTable[c], ALen(order)), order)
     IN [r \in 0..(rowsForParity - 1) |->
           At(order, pickBand(cum, yFromBottom(r, rowsForParity), 0))]]

----------------------------------------------------------------------------
(* Hex grid geometry and cells: render(), main.ts:560-641; buildCellMap,
   main.ts:505-522.  hexWidth = sqrt(3) * hexR is irrational, so comparisons
   with it are made on squares. *)

plotWidth(w) == Max2(1, (w - 20) - 20)

\* cols = max(1, floor(plotW / hexWidth))
columnsFor(w, hexR) ==
  Max2(1, CHOOSE n \in 0..plotWidth(w) :
            /\ 3 * n * n * hexR * hexR <= plotWidth(w) * plotWidth(w)
            /\ 3 * (n + 1) * (n + 1) * hexR * hexR > plotWidth(w) * plotWidth(w))

\* rows = max(1, floor((lastY - firstY) / vertStep) + 1), vertStep = 1.5 * hexR
rowsFor(h, hexR) ==
  Max2(1, FloorDiv(2 * (((h - 20) - hexR) - (20 + hexR)), 3 * hexR) + 1)

\* x = startX + col * hexWidth is kept unless x > (clientWidth - 20) - hexWidth / 4,
\* that is unless sqrt(3) * hexR * (4 col + 3 + 2 odd) > 4 * (w - 40); the test
\* x < 20 + hexWidth / 4 never succeeds.
cellInPlot(row, col, w, hexR) ==
  LET k == 4 * col + 3 + 2 * (row % 2)
  IN /\ w - 40 >= 0
     /\ 3 * hexR * hexR * k * k <= 16 * (w - 40) * (w - 40)

chosenSeries(allocTable, col, slot) ==
  IF col \in DOMAIN allocTable /\ slot \in DOMAIN allocTable[col]
       /\ allocTable[col][slot] # Undef
  THEN allocTable[col][slot]
  ELSE 0

rowInParity_row(row) == row

\* main.ts:512
rowInParity(row) == row \div 2

buildCellMap(cols, rows, w, hexR, allocEven, allocOdd) ==
  [row \in 0..(rows - 1) |->
     [col \in {c \in 0..(cols - 1) : cellInPlot(row, c, w, hexR)} |->
        [col |-> col,
         x |-> [hexR |-> hexR, halfWidths |-> 2 * col + 1 + (row % 2)],
         series |-> chosenSeries(IF row % 2 = 0 THEN allocEven ELSE allocOdd, col,
                                rowInParity(row))]]]

\* counts[s] = Math.round(Math.max(0, dist[s] || 0) * 1000)
cellCounts(dist, seriesLen) ==
  [s \in 0..(seriesLen - 1) |->
     IF s \in DOMAIN dist
     THEN MathRound(MathMax0(dist[s])[1] * 1000, MathMax0(dist[s])[2])
     ELSE 0]

RECURSIVE cellsOfRow(_, _, _, _, _)
cellsOfRow(cellRow, row, distTable, seriesLen, col) ==
  IF col < 0 THEN <<>>
  ELSE cellsOfRow(cellRow, row, distTable, seriesLen, col - 1) \o
       (IF col \in DOMAIN cellRow
        THEN <<[row |-> row, col |-> col, cx |-> cellRow[col].x,
                series |-> cellRow[col].series,
                counts |-> cellCounts(distTable[col], seriesLen),
                samples |-> RSum([s \in 0..(seriesLen - 1) |->
                                    RInt(cellCounts(distTable[col], seriesLen)[s])])[1]]>>
        ELSE <<>>)

RECURSIVE cellsUpTo(_, _, _, _, _, _)
cellsUpTo(cellMap, binsEven, binsOdd, seriesLen, cols, row) ==
  IF row < 0 THEN <<>>
  ELSE cellsUpTo(cellMap, binsEven, binsOdd, seriesLen, cols, row - 1) \o
       cellsOfRow(cellMap[row], row, IF row % 2 = 0 THEN binsEven ELSE binsOdd,
                  seriesLen, cols - 1)

selectActiveOrder_noLengthCheck(uOrder, computedGlobalOrder) ==
  IF ~uOrder.isNull THEN uOrder.arr ELSE computedGlobalOrder

\* main.ts:604
selectActiveOrder(uOrder, computedGlobalOrder) ==
  IF ~uOrder.isNull /\ ALen(uOrder.arr) = ALen(computedGlobalOrder)
  THEN uOrder.arr
  ELSE computedGlobalOrder

\* The hex branch of render(), main.ts:560-641: its locals and the cells it
\* stores in hexCells.
renderHex(data, hexR, percent, w, h, uOrder) ==
  LET seriesLen == ALen(data.series)
      cols == columnsFor(w, hexR)
      smoothed == smoothedGraph(data, percent)
      binsEven == aggregateBins(smoothed, cols, FALSE)
      binsOdd == aggregateBins(smoothed, cols, TRUE)
      rows == rowsFor(h, hexR)
      evenRowCount == CeilDiv(rows, 2)
      oddRowCount == FloorDiv(rows, 2)
      computedGlobalOrder == computeGlobalOrder(binsEven, binsOdd, seriesLen)
      active == selectActiveOrder(uOrder, computedGlobalOrder)
      allocEven == buildAllocations(binsEven, evenRowCount, active)
      allocOdd == buildAllocations(binsOdd, oddRowCount, active)
      cellMap == buildCellMap(cols, rows, w, hexR, allocEven, allocOdd)
  IN [plot |-> [left |-> 20, top |-> 20, right |-> w - 20, bottom |-> h - 20],
      cols |-> cols, rows |-> rows,
      evenRowCount |-> evenRowCount, oddRowCount |-> oddRowCount,
      binsEven |-> binsEven, binsOdd |-> binsOdd,
      computedGlobalOrder |-> computedGlobalOrder, activeOrder |-> active,
      allocEven |-> allocEven, allocOdd |-> allocOdd,
      cells |-> cellsUpTo(cellMap, binsEven, binsOdd, seriesLen, cols, rows - 1)]

----------------------------------------------------------------------------
(* arrayMove, main.ts:894-898 *)

RemoveAt(a, from) ==
  IF from \in DOMAIN a
  THEN [i \in 0..(ALen(a) - 2) |-> IF i < from THEN a[i] ELSE a[i + 1]]
  ELSE a

InsertAt(a, to, v) ==
  LET at == Min2(to, ALen(a))
  IN [i \in 0..ALen(a) |-> IF i < at THEN a[i] ELSE IF i = at THEN v ELSE a[i - 1]]

arrayMove(a, from, to) ==
  IF from = to THEN a ELSE InsertAt(RemoveAt(a, from), to, At(a, from))

----------------------------------------------------------------------------
(* Series tables (MockData, main.ts:2-3) *)

Names ==
  <<"Rose", "Tulip", "Daffodil", "Lily", "Orchid", "Sunflower", "Daisy", "Marigold",
    "Peony", "Iris", "Lavender", "Carnation", "Chrysanthemum", "Gardenia", "Hydrangea">>

randomName(i) == Names[(i % Len(Names)) + 1]

SampleValues == {-1, 0, 1, 2}

MockDataOf(vals) ==
  [values |-> [i \in 0..(ALen(vals[0]) - 1) |-> 1 + i],
   series |-> [s \in DOMAIN vals |-> [name |-> randomName(s), values |-> vals[s]]]]

----------------------------------------------------------------------------
(* The application: module state, init() and the event handlers *)

Shapes == {"zero", "one", "up", "down", "spike"}

ShapeValue(shape, i, L) ==
  CASE shape = "zero" -> 0
    [] shape = "one" -> 1
    [] shape = "up" -> i
    [] shape = "down" -> L - 1 - i
    [] shape = "spike" -> IF i = 0 THEN 2 ELSE 0

ShapedTable(shapes, L) ==
  [values |-> [i \in 0..(L - 1) |-> 1 + i],
   series |-> [s \in DOMAIN shapes |->
                 [name |-> randomName(s),
                  values |-> [i \in 0..(L - 1) |-> ShapeValue(shapes[s], i, L)]]]]

\* Tables that generateMock or the textarea can deliver: accepted ones of two
\* and three series, a table without series and a table with a short series.
TableUpDown == ShapedTable(Arr(<<"up", "down">>), 4)

TableThree == ShapedTable(Arr(<<"spike", "one", "up">>), 4)

TableTwins == ShapedTable(Arr(<<"one", "one">>), 4)

TableNoSeries == [values |-> Arr(<<1, 2>>), series |-> <<>>]

TableRagged ==
  [values |-> Arr(<<1, 2>>),
   series |-> Arr(<<[name |-> "Iris", values |-> Arr(<<1, 2>>)],
                    [name |-> "Lily", values |-> Arr(<<1>>)],
                    [name |-> "Daisy", values |-> Arr(<<3, 1>>)]>>)]

TableOne == ShapedTable(Arr(<<"up">>), 4)

TableFlatRising == ShapedTable(Arr(<<"one", "up", "up">>), 4)

\* A session fixes what the user loads, which values the controls take and
\* whether the pointer is moved over the canvas: reordering over tables of two
\* and three series; every control over one table; accepted and rejected loads
\* over tables of one and two series; the pointer over tables of two series
\* and one; the hex size over a table of three series.
Sessions ==
  {[tables |-> {TableUpDown, TableThree}, rejected |-> {},
    hexSizes |-> {10}, smoothPercents |-> {0}, canvasSizes |-> {<<100, 100>>},
    pointer |-> FALSE],
   [tables |-> {TableTwins}, rejected |-> {},
    hexSizes |-> {10, 15}, smoothPercents |-> {0, 50},
    canvasSizes |-> {<<100, 100>>, <<120, 100>>}, pointer |-> FALSE],
   [tables |-> {TableOne, TableUpDown}, rejected |-> {TableNoSeries, TableRagged},
    hexSizes |-> {10}, smoothPercents |-> {0}, canvasSizes |-> {<<100, 100>>},
    pointer |-> FALSE],
   [tables |-> {TableUpDown, TableOne}, rejected |-> {},
    hexSizes |-> {10}, smoothPercents |-> {0}, canvasSizes |-> {<<100, 100>>},
    pointer |-> TRUE],
   [tables |-> {TableFlatRising}, rejected |-> {},
    hexSizes |-> {10, 15}, smoothPercents |-> {0}, canvasSizes |-> {<<100, 100>>},
    pointer |-> FALSE]}

\* The session of the specification with a fair display: every control, the
\* pointer, and accepted and rejected loads, over a table of one series.
FairSessions ==
  {[tables |-> {TableOne}, rejected |-> {TableNoSeries},
    hexSizes |-> {10, 15}, smoothPercents |-> {0, 50},
    canvasSizes |-> {<<100, 100>>, <<120, 100>>}, pointer |-> TRUE]}

\* transformToMock of the tables that can be loaded, tabulated once
Transformed ==
  [d \in UNION {session.tables : session \in Sessions \cup FairSessions} |->
     transformToMock(d)]

scheduleRender_forgets == UNCHANGED <<renderQueued, rafCallbacks>>

scheduleRender_unguarded ==
  /\ renderQueued' = TRUE
  /\ rafCallbacks' = rafCallbacks + 1

\* main.ts:498-502
scheduleRender ==
  IF renderQueued
  THEN UNCHANGED <<renderQueued, rafCallbacks>>
  ELSE /\ renderQueued' = TRUE
       /\ rafCallbacks' = rafCallbacks + 1

\* main.ts:750-760; transformToMock throws on a rejected table, after rawData
\* and seriesNames were assigned, and the caller's catch swallows it.
setRawDataAndRender(data) ==
  /\ rawData' = Some(data)
  /\ IF transformThrows(data)
     THEN /\ seriesNames' = [s \in DOMAIN data.series |-> data.series[s].name]
          /\ UNCHANGED <<graphData, renderQueued, rafCallbacks, dropPromise, dropFresh,
                         overrideStale, dataRendered>>
     ELSE /\ graphData' = Some(Transformed[data].mock)
          /\ seriesNames' = Transformed[data].names
          /\ dropPromise' = Null
          /\ dropFresh' = FALSE
          /\ overrideStale' =
               (\/ overrideStale
                \/ /\ ~userOrder.isNull
                   /\ ALen(userOrder.arr) = ALen(graphData.arr.series)
                   /\ ALen(data.series) # ALen(graphData.arr.series))
          /\ dataRendered' = FALSE
          /\ scheduleRender

\* init(), main.ts:780-783 and 979
InitIn(sessions) ==
  /\ showHex = FALSE
  /\ userOrder = Null
  /\ inputs \in sessions
  /\ \E initial \in inputs.tables :
       /\ rawData = Some(initial)
       /\ seriesNames = Transformed[initial].names
       /\ graphData = Some(Transformed[initial].mock)
  /\ hexCells = <<>>
  /\ renderQueued = TRUE
  /\ rafCallbacks = 1
  /\ hexSize \in inputs.hexSizes
  /\ smoothPercent \in inputs.smoothPercents
  /\ \E size \in inputs.canvasSizes : canvasW = size[1] /\ canvasH = size[2]
  /\ orderItems = Null
  /\ activeOrder = Null
  /\ computedOrder = Null
  /\ rendersInFrame = 0
  /\ dropPromise = Null
  /\ dropFresh = FALSE
  /\ lastPlot = Null
  /\ tooltip = Null
  /\ overrideStale = FALSE
  /\ dataRendered = FALSE
  /\ arg = [fn |-> "none"]
  /\ result = Null

Init == InitIn(Sessions)

\* main.ts:786
HexSizeInput ==
  /\ \E v \in inputs.hexSizes \ {hexSize} : hexSize' = v
  /\ scheduleRender
  /\ UNCHANGED <<showHex, userOrder, rawData, seriesNames, graphData, hexCells,
                 smoothPercent, canvasW, canvasH, orderItems, activeOrder,
                 computedOrder, rendersInFrame, dropPromise, dropFresh, lastPlot, tooltip,
                 overrideStale, dataRendered, inputs, arg, result>>

\* main.ts:787
SmoothPercentInput ==
  /\ \E v \in inputs.smoothPercents \ {smoothPercent} : smoothPercent' = v
  /\ scheduleRender
  /\ UNCHANGED <<showHex, userOrder, rawData, seriesNames, graphData, hexCells,
                 hexSize, canvasW, canvasH, orderItems, activeOrder,
                 computedOrder, rendersInFrame, dropPromise, dropFresh, lastPlot, tooltip,
                 overrideStale, dataRendered, inputs, arg, result>>

\* main.ts:794-799
Regenerate ==
  /\ \E next \in inputs.tables : setRawDataAndRender(next)
  /\ UNCHANGED <<showHex, userOrder, hexCells, hexSize, smoothPercent, canvasW, canvasH,
                 orderItems, activeOrder, computedOrder, rendersInFrame, lastPlot, tooltip,
                 inputs, arg, result>>

\* main.ts:819-826: the debounce timer's callback, safeParseMockData having
\* returned the table parsed; an exception of setRawDataAndRender is caught.
MockDataParsed(parsed) ==
  /\ setRawDataAndRender(parsed)
  /\ UNCHANGED <<showHex, userOrder, hexCells, hexSize, smoothPercent, canvasW, canvasH,
                 orderItems, activeOrder, computedOrder, rendersInFrame, lastPlot, tooltip,
                 inputs, arg, result>>

\* main.ts:816-828
MockDataInput ==
  \E parsed \in inputs.tables \cup inputs.rejected : MockDataParsed(parsed)

\* main.ts:880-884
ToggleView ==
  /\ showHex' = ~showHex
  /\ scheduleRender
  /\ UNCHANGED <<userOrder, rawData, seriesNames, graphData, hexCells, hexSize,
                 smoothPercent, canvasW, canvasH, orderItems, activeOrder,
                 computedOrder, rendersInFrame, dropPromise, dropFresh, lastPlot, tooltip,
                 overrideStale, dataRendered, inputs, arg, result>>

\* main.ts:888-891
Resize ==
  /\ \E size \in inputs.canvasSizes :
       canvasW' = size[1] /\ canvasH' = size[2]
  /\ scheduleRender
  /\ UNCHANGED <<showHex, userOrder, rawData, seriesNames, graphData, hexCells,
                 hexSize, smoothPercent, orderItems, activeOrder,
                 computedOrder, rendersInFrame, dropPromise, dropFresh, lastPlot, tooltip,
                 overrideStale, dataRendered, inputs, arg, result>>

\* main.ts:959
dropBase(uOrder, order) == IF ~uOrder.isNull THEN uOrder.arr ELSE order

\* main.ts:951-964: a drop of the item dragged from position fromPos on the
\* item at position toPos of the displayed list
Drop ==
  /\ ~orderItems.isNull
  /\ \E fromPos, toPos \in DOMAIN orderItems.arr :
       /\ userOrder' = Some(arrayMove(dropBase(userOrder, orderItems.arr), fromPos, toPos))
       /\ dropPromise' = IF ALen(orderItems.arr) = ALen(graphData.arr.series)
                         THEN Some(arrayMove(orderItems.arr, fromPos, toPos))
                         ELSE Null
  /\ orderItems' = userOrder'
  /\ dropFresh' = ~dropPromise'.isNull
  /\ overrideStale' = FALSE
  /\ scheduleRender
  /\ UNCHANGED <<showHex, rawData, seriesNames, graphData, hexCells, hexSize,
                 smoothPercent, canvasW, canvasH, activeOrder, computedOrder,
                 rendersInFrame, lastPlot, tooltip, dataRendered, inputs, arg, result>>

\* main.ts:970-977
ResetOrder ==
  /\ userOrder' = Null
  /\ dropPromise' = Null
  /\ dropFresh' = FALSE
  /\ overrideStale' = FALSE
  /\ scheduleRender
  /\ UNCHANGED <<showHex, rawData, seriesNames, graphData, hexCells, hexSize,
                 smoothPercent, canvasW, canvasH, orderItems, activeOrder,
                 computedOrder, rendersInFrame, lastPlot, tooltip, dataRendered,
                 inputs, arg, result>>

\* render(), main.ts:526-670, in the stacked-area view
RenderLine ==
  /\ hexCells' = <<>>
  /\ UNCHANGED <<orderItems, activeOrder, computedOrder, dropFresh, lastPlot, dataRendered>>

\* render(), main.ts:526-670, in the hex view
RenderHex ==
  LET r == renderHex(graphData.arr, hexSize, smoothPercent, canvasW, canvasH, userOrder)
  IN /\ hexCells' = r.cells
     /\ computedOrder' = Some(r.computedGlobalOrder)
     /\ activeOrder' = Some(r.activeOrder)
     /\ orderItems' = Some(r.activeOrder)
     /\ dropFresh' = FALSE
     /\ lastPlot' = Some(r.plot)
     /\ dataRendered' = TRUE

\* The display runs the frame callbacks registered since the last frame; each
\* is () => { renderQueued = false; render(); }, main.ts:501.
Frame ==
  /\ rafCallbacks > 0
  /\ renderQueued' = FALSE
  /\ rafCallbacks' = 0
  /\ rendersInFrame' = rafCallbacks
  /\ IF showHex THEN RenderHex ELSE RenderLine
  /\ UNCHANGED <<showHex, userOrder, rawData, seriesNames, graphData, hexSize,
                 smoothPercent, canvasW, canvasH, dropPromise, tooltip, overrideStale,
                 inputs, arg, result>>

\* Math.round(t * m), main.ts:851-853, for the pointer at the centre cx of a
\* cell: mx - plot.left = cx.halfWidths * sqrt(3) * cx.hexR / 2 and
\* t = min(1, max(0, (mx - plot.left) / plotW)); j - 1/2 <= t * m is compared
\* on squares.
roundOfT(cx, plotW, m) ==
  Cardinality({j \in 1..m :
                 (2 * j - 1) * (2 * j - 1) * plotW * plotW
                   <= 3 * cx.halfWidths * cx.halfWidths * cx.hexR * cx.hexR * m * m})

\* main.ts:851-853 and 858
sampleIndex(cx, plotW, points) ==
  Max2(0, Min2(points - 1, roundOfT(cx, plotW, points - 1)))

\* main.ts:849-875: the tooltip's content for the cell hit
tooltipOf(hit) ==
  LET plot == IF lastPlot.isNull
              THEN [left |-> 20, top |-> 20, right |-> canvasW - 20, bottom |-> canvasH - 20]
              ELSE lastPlot.arr
      plotW == Max2(1, plot.right - plot.left)
      idx == sampleIndex(hit.cx, plotW, ALen(graphData.arr.x))
      values == IF rawData.isNull THEN <<>> ELSE rawData.arr.values
      sIdx == hit.series
      share == IF sIdx \in DOMAIN graphData.arr.series
                  /\ idx \in DOMAIN graphData.arr.series[sIdx]
               THEN graphData.arr.series[sIdx][idx]
               ELSE Zero
  IN [name |-> IF sIdx \in DOMAIN seriesNames
               THEN seriesNames[sIdx]
               ELSE "Series " \o ToString(sIdx + 1),
      value |-> IF ALen(values) > 0
                THEN ToString(values[sampleIndex(hit.cx, plotW, ALen(values))])
                ELSE ToString(roundOfT(hit.cx, plotW, 100)) \o "%",
      shareTenths |-> MathRound(share[1] * 1000, share[2]),
      majorityPercent |-> IF hit.samples > 0 /\ sIdx \in DOMAIN hit.counts
                          THEN MathRound(hit.counts[sIdx] * 100, hit.samples)
                          ELSE 0]

\* main.ts:831-876, the pointer being at the centre of one of the first cells
\* of hexCells (n > 0) or off every cell (n = 0)
MouseMove ==
  /\ inputs.pointer
  /\ \E n \in 0..Min2(PointerCells, Len(hexCells)) :
       tooltip' = IF graphData.isNull \/ ~showHex \/ n = 0
                  THEN Null
                  ELSE Some(tooltipOf(hexCells[n]))
  /\ UNCHANGED <<showHex, userOrder, rawData, seriesNames, graphData, hexCells,
                 renderQueued, rafCallbacks, hexSize, smoothPercent, canvasW, canvasH,
                 orderItems, activeOrder, computedOrder, rendersInFrame,
                 dropPromise, dropFresh, lastPlot, overrideStale, dataRendered,
                 inputs, arg, result>>

\* main.ts:877
MouseLeave ==
  /\ inputs.pointer
  /\ tooltip' = Null
  /\ UNCHANGED <<showHex, userOrder, rawData, seriesNames, graphData, hexCells,
                 renderQueued, rafCallbacks, hexSize, smoothPercent, canvasW, canvasH,
                 orderItems, activeOrder, computedOrder, rendersInFrame,
                 dropPromise, dropFresh, lastPlot, overrideStale, dataRendered,
                 inputs, arg, result>>

Next ==
  \/ HexSizeInput
  \/ SmoothPercentInput
  \/ Regenerate
  \/ MockDataInput
  \/ ToggleView
  \/ Resize
  \/ Drop
  \/ ResetOrder
  \/ MouseMove
  \/ MouseLeave
  \/ Frame

Spec == Init /\ [][Next]_vars

\* The step of Frame, told by its effect on the callbacks registered
FrameRuns == rafCallbacks > 0 /\ rafCallbacks' = 0

\* The display keeps delivering frames: a registered frame callback is run
\* (window.requestAnimationFrame, main.ts:501).
FairSpec == InitIn(FairSessions) /\ [][Next]_vars /\ WF_rafCallbacks(FrameRuns)

----------------------------------------------------------------------------
(* Claims about the application *)

\* A step in which the frame callback runs render() in the hex view
HexRenderStep == showHex /\ renderQueued /\ ~renderQueued'

OverrideIsLengthValid ==
  ~userOrder.isNull /\ ALen(userOrder.arr) = ALen(graphData.arr.series)

\* C4: at every hex render the order handed to both allocations is the user
\* override when one is set and its length equals the series count, and the
\* computed Global Order otherwise; with an override of another length the
\* render raises no error and completes: it fills hexCells, and every cell
\* holds a series index that render can draw (below the series count).
C4_ActiveOrderChoice ==
  [][HexRenderStep =>
       /\ activeOrder' = (IF OverrideIsLengthValid THEN userOrder ELSE computedOrder')
       /\ orderItems' = activeOrder'
       /\ (~userOrder.isNull /\ ~OverrideIsLengthValid) =>
            /\ Len(hexCells') > 0
            /\ \A n \in DOMAIN hexCells' :
                 hexCells'[n].series \in 0..(ALen(graphData.arr.series) - 1)]_vars

\* C4 witness: a hex render has just run with an override whose length is not
\* the series count, and it used the computed order and filled hexCells.
C4_Witness ==
  /\ showHex
  /\ ~renderQueued
  /\ ~userOrder.isNull
  /\ ALen(userOrder.arr) # ALen(graphData.arr.series)
  /\ activeOrder = computedOrder
  /\ Len(hexCells) > 0

\* C5: once a user override is set (by a drop on a list that shows the series
\* of the loaded data), every later hex render uses it for allocation, across
\* hex-size changes, smoothing changes, view toggles and resizes, until the
\* user presses reset; a render with the override reset uses the computed
\* Global Order.  dropPromise is set exactly from such a drop until the next
\* reset or accepted load.
C5_OverrideUsedUntilReset ==
  [][HexRenderStep =>
       /\ ~dropPromise.isNull => activeOrder' = userOrder
       /\ userOrder.isNull => activeOrder' = computedOrder']_vars

\* C6: render requests are coalesced: at most one frame callback is pending
\* (and one is pending exactly when renderQueued), a scheduleRender call made
\* while one is pending registers no further callback, and a frame executes
\* render exactly once whatever the number of state changes before it.
C6_RendersCoalesced ==
  /\ [](rafCallbacks <= 1 /\ (renderQueued <=> rafCallbacks = 1))
  /\ [][renderQueued => rafCallbacks' <= rafCallbacks]_vars
  /\ [][(rafCallbacks > 0 /\ rafCallbacks' = 0) => rendersInFrame' = 1]_vars

\* C6 witness: before the first frame, while the render requested by init()
\* is pending, the view was toggled and the hex size changed (two more
\* requests), and one callback is pending.
C6_Witness ==
  /\ rendersInFrame = 0
  /\ showHex
  /\ hexSize = 15
  /\ smoothPercent = 50
  /\ renderQueued
  /\ rafCallbacks = 1

\* C10: the first hex render after a drop (on a list that shows the series of
\* the loaded data) uses, for allocation, the order that was displayed when
\* the drop happened with the dropped item moved, also when an earlier
\* override exists and the series count has changed since it was set.
C10_DropTakesEffect ==
  [][(HexRenderStep /\ dropFresh) => activeOrder' = dropPromise]_vars

\* C11: when data with another series count is loaded, the user override that
\* exists is discarded: no later hex render uses it (each uses the computed
\* Global Order), also after data with the original series count is loaded
\* again, unless the user reorders anew (or resets).
C11_OverrideDiscardedOnCountChange ==
  [][(HexRenderStep /\ overrideStale) => activeOrder' = computedOrder']_vars

\* C12: a load of a rejected table (no series, or a series whose length is
\* not the length of values) leaves the previous data in place: rawData,
\* seriesNames and graphData keep their values, and no render is requested.
C12_RejectedLoadLeavesData ==
  [][\A parsed \in inputs.rejected :
       MockDataParsed(parsed) =>
         /\ rawData' = rawData
         /\ seriesNames' = seriesNames
         /\ graphData' = graphData
         /\ renderQueued' = renderQueued
         /\ rafCallbacks' = rafCallbacks]_vars

\* C18: after any sequence of data loads, reorder drops and resets, the order
\* that a hex render passes to buildAllocations is a permutation of
\* [0, sCount) for the current series count: exactly sCount entries, each a
\* distinct defined index below sCount.
C18_ActiveOrderIsPermutation ==
  [][HexRenderStep =>
       IsPermutation(activeOrder'.arr, ALen(graphData.arr.series))]_vars

\* C19: at every pointer-move lookup the hex cells that are hit-tested belong
\* to the loaded data: every cell of hexCells has a series index below the
\* series count of graphData and a counts vector of that length, also when
\* the pointer moves between a data load and the frame that re-renders.
C19_CellsBelongToLoadedData ==
  [][(MouseMove /\ showHex /\ ~graphData.isNull) =>
       \A n \in DOMAIN hexCells :
         /\ hexCells[n].series \in 0..(ALen(graphData.arr.series) - 1)
         /\ ALen(hexCells[n].counts) = ALen(graphData.arr.series)]_vars

\* An input event that the application accepts and that mutates its state
AcceptedInput ==
  \/ HexSizeInput
  \/ SmoothPercentInput
  \/ ToggleView
  \/ Resize
  \/ Drop
  \/ ResetOrder
  \/ \E next \in inputs.tables : MockDataParsed(next)

\* C13: every accepted state-mutating input event (hex radius, smoothing,
\* view toggle, accepted load, drop, reset, resize) leaves a render pending;
\* a pending render is not cancelled: it stops being pending only by the frame
\* callback running render, which completes (in the hex view with cells that
\* can be drawn); and under a fair frame callback a pending render
\* eventually runs.
C13_MutationLeadsToRender ==
  /\ [][AcceptedInput => renderQueued' /\ rafCallbacks' = 1]_vars
  /\ [][(renderQueued /\ ~renderQueued') =>
          /\ rendersInFrame' = 1
          /\ showHex => /\ Len(hexCells') > 0
                         /\ \A n \in DOMAIN hexCells' :
                              hexCells'[n].series \in 0..(ALen(graphData.arr.series) - 1)
          /\ ~showHex => hexCells' = <<>>]_vars
  /\ (renderQueued ~> ~renderQueued)

\* C13 witness: after a first frame, in the hex view, a drop has left a render
\* pending.
C13_Witness ==
  /\ rendersInFrame = 1
  /\ showHex
  /\ dropFresh
  /\ renderQueued
  /\ rafCallbacks = 1

\* C14: the computed Global Order changes only with the data: with the loaded
\* data unchanged since the last hex render and no user override, a hex render
\* yields the computed Global Order of that last render, whatever the hex
\* radius and the smoothing percent have become.
C14_OrderFixedForData ==
  [][(HexRenderStep /\ dataRendered /\ userOrder.isNull) =>
       computedOrder' = computedOrder]_vars

----------------------------------------------------------------------------
(* The application at rest, for the function-level specifications *)

AppIdle ==
  /\ showHex = FALSE
  /\ userOrder = Null
  /\ rawData = Null
  /\ seriesNames = <<>>
  /\ graphData = Null
  /\ hexCells = <<>>
  /\ renderQueued = FALSE
  /\ rafCallbacks = 0
  /\ hexSize = 0
  /\ smoothPercent = 0
  /\ canvasW = 0
  /\ canvasH = 0
  /\ orderItems = Null
  /\ activeOrder = Null
  /\ computedOrder = Null
  /\ rendersInFrame = 0
  /\ dropPromise = Null
  /\ dropFresh = FALSE
  /\ lastPlot = Null
  /\ tooltip = Null
  /\ overrideStale = FALSE
  /\ dataRendered = FALSE
  /\ inputs = <<>>

----------------------------------------------------------------------------
(* Function-level specification: transformToMock on every accepted table *)

InitNorm ==
  /\ AppIdle
  /\ \E S \in 1..NormMaxSeries, L \in 1..NormMaxLen :
       \E vals \in [0..(S - 1) -> [0..(L - 1) -> SampleValues]] :
         arg = [fn |-> "transformToMock", data |-> MockDataOf(vals)]
  /\ result = Null

CallTransformToMock ==
  /\ arg.fn = "transformToMock"
  /\ result = Null
  /\ ~transformThrows(arg.data)
  /\ result' = Some(transformToMock(arg.data))
  /\ UNCHANGED <<appVars, arg>>

NextNorm == CallTransformToMock

SpecNorm == InitNorm /\ [][NextNorm]_vars

\* C7: for every accepted Series Table (sCount >= 1, L >= 1, values of any
\* sign) every share of the matrix transformToMock returns lies in [0,1], and
\* at every sample index the shares of all series sum to 1.
C7_SharesSumToOne ==
  (arg.fn = "transformToMock" /\ ~result.isNull) =>
    LET m == result.arr.mock IN
      /\ DOMAIN m.series = DOMAIN arg.data.series
      /\ \A s \in DOMAIN m.series :
           /\ DOMAIN m.series[s] = DOMAIN arg.data.values
           /\ \A i \in DOMAIN m.series[s] :
                RLe(Zero, m.series[s][i]) /\ RLe(m.series[s][i], One)
      /\ \A i \in DOMAIN m.x :
           RSum([s \in DOMAIN m.series |-> m.series[s][i]]) = One

\* C7 witness: a table with a negative, a zero and a positive value at one
\* sample has been normalised.
C7_Witness ==
  /\ arg.fn = "transformToMock"
  /\ ~result.isNull
  /\ ALen(arg.data.series) = 3
  /\ \E i \in DOMAIN arg.data.values :
       /\ arg.data.series[0].values[i] < 0
       /\ arg.data.series[1].values[i] = 0
       /\ arg.data.series[2].values[i] > 0

\* C16: at every sample index where the raw values of all series are <= 0
\* (all zero, all negative or a mix of both), transformToMock gives every
\* series the share 1/sCount.
C16_UniformWhenNoPositive ==
  (arg.fn = "transformToMock" /\ ~result.isNull) =>
    \A i \in DOMAIN arg.data.values :
      (\A s \in DOMAIN arg.data.series : arg.data.series[s].values[i] <= 0) =>
        \A s \in DOMAIN arg.data.series :
          result.arr.mock.series[s][i] = <<1, ALen(arg.data.series)>>

\* C16 witness: a table of two or more series with, at one sample, a zero and
\* a negative value and nothing positive has been normalised.
C16_Witness ==
  /\ arg.fn = "transformToMock"
  /\ ~result.isNull
  /\ ALen(arg.data.series) >= 2
  /\ \E i \in DOMAIN arg.data.values :
       /\ arg.data.series[0].values[i] = 0
       /\ arg.data.series[1].values[i] < 0
       /\ \A s \in DOMAIN arg.data.series : arg.data.series[s].values[i] <= 0

----------------------------------------------------------------------------
(* Function-level specification: movingAverage on every short sequence of
   small numbers, with every small window *)

InitSmooth ==
  /\ AppIdle
  /\ \E n \in 0..MaxLen :
       \E a \in [0..(n - 1) -> 0..MaxWeight] :
         arg = [fn |-> "movingAverage", arr |-> [i \in 0..(n - 1) |-> RInt(a[i])]]
  /\ result = Null

CallMovingAverage ==
  /\ arg.fn = "movingAverage"
  /\ result = Null
  /\ \E windowSamples \in 0..MaxWindow :
       result' = Some([windowSamples |-> windowSamples,
                       out |-> movingAverage(arg.arr, windowSamples)])
  /\ UNCHANGED <<appVars, arg>>

NextSmooth == CallMovingAverage

SpecSmooth == InitSmooth /\ [][NextSmooth]_vars

\* C17 (as claimed): movingAverage(arr, w) with w <= 2 returns a sequence
\* equal to arr element by element, for every input sequence.
C17_WindowTwoIsNoOp ==
  (arg.fn = "movingAverage" /\ ~result.isNull /\ result.arr.windowSamples <= 2) =>
    result.arr.out = arg.arr

\* C17 (amended): movingAverage(arr, w) with w <= 1 returns a sequence equal
\* to arr element by element, for every input sequence.
C17_WindowOneIsNoOp ==
  (arg.fn = "movingAverage" /\ ~result.isNull /\ result.arr.windowSamples <= 1) =>
    result.arr.out = arg.arr

\* C17 witness: a sequence that is not constant went through movingAverage
\* with window 1 and came back equal.
C17_Witness ==
  /\ arg.fn = "movingAverage"
  /\ ~result.isNull
  /\ result.arr.windowSamples = 1
  /\ ALen(arg.arr) >= 3
  /\ arg.arr[0] # arg.arr[1]
  /\ result.arr.out = arg.arr

----------------------------------------------------------------------------
(* Function-level specification: aggregateBins and computeGlobalOrder on the
   share matrices of shaped tables *)

InitBins ==
  /\ AppIdle
  /\ \E S \in 1..MaxSeries, L \in 0..MaxLen, percent \in {0, 50} :
       \E shapes \in [0..(S - 1) -> Shapes] :
         arg = [fn |-> "aggregateBins",
                data |-> smoothedGraph(transformToMock(ShapedTable(shapes, L)).mock, percent)]
  /\ result = Null

CallAggregateBins ==
  /\ arg.fn = "aggregateBins"
  /\ result = Null
  /\ \E columns \in 1..MaxCols :
       result' = Some([stage |-> "bins",
                       columns |-> columns,
                       binsEven |-> aggregateBins(arg.data, columns, FALSE),
                       binsOdd |-> aggregateBins(arg.data, columns, TRUE),
                       order |-> <<>>])
  /\ UNCHANGED <<appVars, arg>>

CallComputeGlobalOrder ==
  /\ arg.fn = "aggregateBins"
  /\ ~result.isNull
  /\ result.arr.stage = "bins"
  /\ result' = Some([result.arr EXCEPT
                       !.stage = "order",
                       !.order = computeGlobalOrder(result.arr.binsEven, result.arr.binsOdd,
                                                    ALen(arg.data.series))])
  /\ UNCHANGED <<appVars, arg>>

NextBins == CallAggregateBins \/ CallComputeGlobalOrder

SpecBins == InitBins /\ [][NextBins]_vars

IsDistribution(col, sCount) ==
  /\ DOMAIN col = 0..(sCount - 1)
  /\ \A s \in DOMAIN col : RLe(Zero, col[s])
  /\ RSum(col) = One

\* C8: for every column count columns >= 1 and both parities, every column of
\* the table aggregateBins returns has non-negative per-series shares that sum
\* to 1.
C8_BinsSumToOne ==
  (arg.fn = "aggregateBins" /\ ~result.isNull) =>
    \A bins \in {result.arr.binsEven, result.arr.binsOdd} :
      /\ DOMAIN bins = 0..(result.arr.columns - 1)
      /\ \A b \in DOMAIN bins : IsDistribution(bins[b], ALen(arg.data.series))

\* C8 witness: a bin of the shifted table that gathers two or more samples of
\* two or more series has been normalised.
C8_Witness ==
  /\ arg.fn = "aggregateBins"
  /\ ~result.isNull
  /\ ALen(arg.data.series) >= 2
  /\ \E b \in DOMAIN result.arr.binsOdd :
       /\ binEnd(b, ALen(arg.data.x), result.arr.columns, TRUE)
            - binStart(b, ALen(arg.data.x), result.arr.columns, TRUE) >= 2
       /\ \E s \in DOMAIN result.arr.binsOdd[b] :
            RLt(Zero, result.arr.binsOdd[b][s]) /\ RLt(result.arr.binsOdd[b][s], One)

TotalShare(s) ==
  RAdd(RSum([c \in DOMAIN result.arr.binsEven |-> result.arr.binsEven[c][s]]),
       RSum([c \in DOMAIN result.arr.binsOdd |-> result.arr.binsOdd[c][s]]))

\* C9: computeGlobalOrder returns a permutation of [0, sCount) in which a
\* series with a larger total share (summed over all bins of both parity
\* tables) comes first, and two series with equal totals come in increasing
\* order of their index.
C9_OrderByTotalShare ==
  (arg.fn = "aggregateBins" /\ ~result.isNull /\ result.arr.stage = "order") =>
    LET order == result.arr.order
        sCount == ALen(arg.data.series)
    IN /\ IsPermutation(order, sCount)
       /\ \A p, q \in DOMAIN order :
            p < q =>
              \/ RLt(TotalShare(order[q]), TotalShare(order[p]))
              \/ TotalShare(order[q]) = TotalShare(order[p]) /\ order[p] < order[q]

\* C9 witness: an order was computed for three series of which two tie and the
\* third, of higher index, has the largest total.
C9_Witness ==
  /\ arg.fn = "aggregateBins"
  /\ ~result.isNull
  /\ result.arr.stage = "order"
  /\ ALen(arg.data.series) = 3
  /\ TotalShare(0) = TotalShare(1)
  /\ RLt(TotalShare(0), TotalShare(2))
  /\ result.arr.order = Arr(<<2, 0, 1>>)

----------------------------------------------------------------------------
(* Function-level specification: buildAllocations on every small
   distribution table, row count and order *)

AllocWeights == {0, 1, 5, 6}

InitAlloc ==
  /\ AppIdle
  /\ \E S \in 1..MaxSeries, rows \in 0..MaxRows :
       \E w \in [0..(S - 1) -> AllocWeights], order \in Perms(S) :
         arg = [fn |-> "buildAllocations",
                distTable |-> Arr(<<[s \in 0..(S - 1) |-> RInt(w[s])],
                                    [s \in 0..(S - 1) |-> RInt(w[S - 1 - s])]>>),
                rowsForParity |-> rows,
                order |-> order]
  /\ result = Null

CallBuildAllocations ==
  /\ arg.fn = "buildAllocations"
  /\ result = Null
  /\ result' = Some(buildAllocations(arg.distTable, arg.rowsForParity, arg.order))
  /\ UNCHANGED <<appVars, arg>>

NextAlloc == CallBuildAllocations

SpecAlloc == InitAlloc /\ [][NextAlloc]_vars

\* C1: buildAllocations, given a distribution table, rows >= 0 and an order
\* that is a permutation of [0, sCount), returns for every column exactly
\* `rows` slots, each holding a series index i with 0 <= i < sCount (none
\* undefined).
C1_AllocationCoverage ==
  (arg.fn = "buildAllocations" /\ ~result.isNull
     /\ IsPermutation(arg.order, ALen(arg.order))) =>
    /\ DOMAIN result.arr = DOMAIN arg.distTable
    /\ \A c \in DOMAIN result.arr :
         /\ DOMAIN result.arr[c] = 0..(arg.rowsForParity - 1)
         /\ \A r \in DOMAIN result.arr[c] :
              result.arr[c][r] # Undef /\ result.arr[c][r] \in 0..(ALen(arg.order) - 1)

\* C1 witness: a column with three series and several rows was allocated, and
\* its top slot went to the last series of the order.
C1_Witness ==
  /\ arg.fn = "buildAllocations"
  /\ ~result.isNull
  /\ ALen(arg.order) = 3
  /\ arg.rowsForParity >= 3
  /\ result.arr[0][0] = arg.order[2]
  /\ result.arr[0][arg.rowsForParity - 1] = arg.order[0]

PositionInOrder(order, s) == CHOOSE k \in DOMAIN order : order[k] = s

\* C2: in every column of the table buildAllocations returns, scanning the row
\* slots from the bottom (r = rows-1) to the top (r = 0), the position in the
\* order of the assigned series never decreases.
C2_AllocationMonotone ==
  (arg.fn = "buildAllocations" /\ ~result.isNull) =>
    \A c \in DOMAIN result.arr :
      \A r \in DOMAIN result.arr[c] :
        (r + 1) \in DOMAIN result.arr[c] =>
          PositionInOrder(arg.order, result.arr[c][r + 1])
            <= PositionInOrder(arg.order, result.arr[c][r])

\* C2 witness: a column whose slots, bottom to top, go through three different
\* positions of an order that is not the identity.
C2_Witness ==
  /\ arg.fn = "buildAllocations"
  /\ ~result.isNull
  /\ arg.order = Arr(<<2, 0, 1>>)
  /\ arg.rowsForParity = 3
  /\ result.arr[0] = Arr(<<1, 0, 2>>)

SlotsOf(c, s) == Cardinality({r \in DOMAIN result.arr[c] : result.arr[c][r] = s})

\* share * rows rounded down and up, the share of series s in column c being
\* the double that buildAllocations computes, or the exact ratio where that
\* gives the wider interval
SlotsFloor(c, s) ==
  LET share == columnShares(arg.distTable[c], ALen(arg.order))[s]
      n == share.q[1] * arg.rowsForParity
  IN FloorDiv(n, share.q[2]) - (IF n % share.q[2] = 0 /\ share.eta[1] < 0 THEN 1 ELSE 0)

SlotsCeil(c, s) ==
  LET share == columnShares(arg.distTable[c], ALen(arg.order))[s]
      n == share.q[1] * arg.rowsForParity
  IN CeilDiv(n, share.q[2]) + (IF n % share.q[2] = 0 /\ share.eta[1] > 0 THEN 1 ELSE 0)

\* C20: in every column of an allocation table with rows >= 1, the number of
\* row slots assigned to a series lies between floor(share * rows) and
\* ceil(share * rows); a series with share 0 gets no slot, and a series with
\* share 1/2 gets floor(rows/2) or ceil(rows/2) slots.
C20_SlotsProportional ==
  (arg.fn = "buildAllocations" /\ ~result.isNull /\ arg.rowsForParity >= 1) =>
    \A c \in DOMAIN result.arr :
      \A s \in DOMAIN arg.order :
        /\ SlotsFloor(c, s) <= SlotsOf(c, s)
        /\ SlotsOf(c, s) <= SlotsCeil(c, s)

----------------------------------------------------------------------------
(* Function-level specification: the hex branch of render() on shaped tables,
   with every permutation as the active order *)

CellShapes == {"one", "up", "spike"}

InitCells ==
  /\ AppIdle
  /\ \E S \in 1..MaxSeries, percent \in {0, 50}, hexR \in {10, 15},
        size \in {<<100, 120>>} :
       \E shapes \in [0..(S - 1) -> CellShapes], order \in Perms(S) :
         arg = [fn |-> "render",
                data |-> transformToMock(ShapedTable(shapes, MaxLen)).mock,
                hexR |-> hexR, percent |-> percent, w |-> size[1], h |-> size[2],
                userOrder |-> Some(order)]
  /\ result = Null

CallRenderHex ==
  /\ arg.fn = "render"
  /\ result = Null
  /\ result' = Some(renderHex(arg.data, arg.hexR, arg.percent, arg.w, arg.h, arg.userOrder))
  /\ UNCHANGED <<appVars, arg>>

NextCells == CallRenderHex

SpecCells == InitCells /\ [][NextCells]_vars

CellBins(cell) == IF cell.row % 2 = 0 THEN result.arr.binsEven ELSE result.arr.binsOdd

CellRows(cell) ==
  IF cell.row % 2 = 0 THEN result.arr.evenRowCount ELSE result.arr.oddRowCount

\* The cumulative share, in the active order, of the positions below k
ShareBelow(cell, k) ==
  RSum([j \in 0..(k - 1) |-> CellBins(cell)[cell.col][result.arr.activeOrder[j]]])

\* The height of the middle of the cell's row slot, from the bottom, as a
\* fraction of the column: 1 - (r + 0.5) / rows with r = floor(row / 2)
SlotMiddle(cell) ==
  <<2 * CellRows(cell) - 2 * (cell.row \div 2) - 1, 2 * CellRows(cell)>>

====
